---------------------------- MODULE Spec2Model ----------------------------
(***************************************************************************)
(* A model of plainsong-rs (src/src/plainsong.rs, src/src/main.rs): the    *)
(* chord grammar matcher, the chord line extractor, the line-by-line song  *)
(* parser, the LaTeX renderer and the HTML renderer.                        *)
(*                                                                         *)
(* A string is a sequence of characters; a character is a one-element      *)
(* TLA+ string, except for the non-ASCII characters, which are written by  *)
(* name ("Delta", "deg", "oslash", "Oslash", "eacute") and are two bytes   *)
(* long in UTF-8.                                                          *)
(***************************************************************************)
EXTENDS Integers, Sequences, FiniteSets, TLC

VARIABLES
    pc,       \* where main / SongParser::parse stands
    parser,   \* the SongParser struct: song, state, last_chords, part
    calls,    \* the calls of parse_line by parse so far: the line of each and
              \* the way it took through parse_line
    latex,    \* what Song::to_latex returned (or that it panicked)
    html,     \* what Song::to_html returned (or that it panicked)
    arg,      \* the argument of a call of is_chord / parse_chords
    ret       \* what that call returned

vars == <<pc, parser, calls, latex, html, arg, ret>>

(***************************************************************************)
(* Bounds of the model.                                                    *)
(***************************************************************************)
MaxLines == 4      \* lines of input before the end of input
MaxTokLen == 4     \* length of the tokens is_chord is called on
MaxLineLen == 5    \* length of the lines parse_chords is called on

(***************************************************************************)
(* Strings.                                                                *)
(***************************************************************************)
\* char::is_whitespace / \s, on the characters of the model
IsWhitespace(c) == c \in {" ", "\t"}

\* char::len_utf8
len_utf8(c) == IF c \in {"Delta", "deg", "oslash", "Oslash", "eacute"} THEN 2 ELSE 1

RECURSIVE str_len(_)
\* String::len: the length in bytes
str_len(s) == IF s = <<>> THEN 0 ELSE len_utf8(Head(s)) + str_len(Tail(s))

\* the number of leading whitespace characters of s
LeadingWs(s) ==
    IF \A i \in 1..Len(s) : IsWhitespace(s[i]) THEN Len(s)
    ELSE (CHOOSE i \in 1..Len(s) :
             ~IsWhitespace(s[i]) /\ \A j \in 1..(i - 1) : IsWhitespace(s[j])) - 1

\* the number of trailing whitespace characters of s
TrailingWs(s) ==
    IF \A i \in 1..Len(s) : IsWhitespace(s[i]) THEN Len(s)
    ELSE Len(s) - (CHOOSE i \in 1..Len(s) :
             ~IsWhitespace(s[i]) /\ \A j \in (i + 1)..Len(s) : IsWhitespace(s[j]))

\* str::trim
trim(s) ==
    IF LeadingWs(s) = Len(s) THEN <<>>
    ELSE SubSeq(s, LeadingWs(s) + 1, Len(s) - TrailingWs(s))

\* s has the string w at index p (1-based)
HasAt(s, p, w) == p + Len(w) - 1 <= Len(s) /\ SubSeq(s, p, p + Len(w) - 1) = w

(***************************************************************************)
(* CHORD_REGEX and is_chord.  The regex is matched the way an automaton    *)
(* matches it: a set of positions in the text is carried through the       *)
(* regex from left to right; ^ starts it at the first position and $       *)
(* accepts at the position after the last character only.                  *)
(***************************************************************************)
ReRoot == {<<"C">>, <<"D">>, <<"E">>, <<"F">>, <<"G">>, <<"A">>, <<"B">>}
ReAccidental == {<<"b">>, <<"#">>}
ReQuality == {<<"m">>, <<"M">>, <<"m", "i", "n">>, <<"m", "a", "j">>, <<"d", "i", "m">>,
              <<"Delta">>, <<"deg">>, <<"oslash">>, <<"Oslash">>}
ReSusAdd == {<<"s", "u", "s">>, <<"a", "d", "d">>}
ReDegree == {<<"2">>, <<"4">>, <<"5">>, <<"6">>, <<"7">>, <<"9">>,
             <<"1", "0">>, <<"1", "1">>, <<"1", "3">>}
ReAlteration == {<<"+">>, <<"a", "u", "g">>, <<"a", "l", "t">>}
ReSlash == {<<"/">>}

\* (a|b|...): the positions after one of the alternatives, from a position of P
ReAlt(text, P, alts) == {p + Len(w) : <<p, w>> \in {x \in P \X alts : HasAt(text, x[1], x[2])}}

\* (a|b|...)?
ReOpt(text, P, alts) == P \cup ReAlt(text, P, alts)

\* ((sus|add)?(b|#)?(2|...|13)?): one round of the starred group
ReExtension(text, P) ==
    ReOpt(text, ReOpt(text, ReOpt(text, P, ReSusAdd), ReAccidental), ReDegree)

RECURSIVE ReStar(_, _)
\* (...)*: rounds of the group until no position is new
ReStar(text, P) ==
    LET Q == P \cup ReExtension(text, P)
    IN  IF Q = P THEN P ELSE ReStar(text, Q)

\* (/(C|...|B)(b|#)?)?
ReSlashGroup(text, P) ==
    P \cup ReOpt(text, ReAlt(text, ReAlt(text, P, ReSlash), ReRoot), ReAccidental)

\* the positions the whole regex can end at, started at the first character
ReEnds(text, P) ==
    ReSlashGroup(text,
      ReOpt(text,
        ReStar(text,
          ReOpt(text, ReOpt(text, ReAlt(text, P, ReRoot), ReAccidental), ReQuality)),
        ReAlteration))

\* CHORD_REGEX without the $ at its end: a match may stop before the end
CHORD_REGEX_unanchored(text) == ReEnds(text, {1}) # {}

\* Regex::is_match of CHORD_REGEX
CHORD_REGEX(text) == (Len(text) + 1) \in ReEnds(text, {1})

\* SongParser::is_chord
is_chord(text) == CHORD_REGEX(text)

(***************************************************************************)
(* parse_chords.  An Option is [some |-> FALSE] or [some |-> TRUE, val].   *)
(***************************************************************************)
None == [some |-> FALSE]
Some(v) == [some |-> TRUE, val |-> v]

SongChord(name, pos) == [name |-> name, pos |-> pos]

RECURSIVE chords_loop(_, _, _, _, _)
\* the loop over line.chars(), at the character of index pos (0-based), and
\* the code after the loop
chords_loop(line, pos, word, chords, start) ==
    IF pos = Len(line) THEN
        IF word # <<>> THEN
            IF ~is_chord(word) THEN None
            ELSE Some(Append(chords, SongChord(word, start)))
        ELSE Some(chords)
    ELSE
        LET c == line[pos + 1] IN
        IF c = " " THEN
            IF word # <<>> THEN
                IF ~is_chord(word) THEN None
                ELSE chords_loop(line, pos + 1, <<>>,
                                 Append(chords, SongChord(word, start)), pos + 1)
            ELSE chords_loop(line, pos + 1, word, chords, pos + 1)
        ELSE chords_loop(line, pos + 1, Append(word, c), chords, start)

RECURSIVE chords_loop_at_space(_, _, _, _, _)
\* chords_loop with `start = pos` for `start = pos + 1`
chords_loop_at_space(line, pos, word, chords, start) ==
    IF pos = Len(line) THEN
        IF word # <<>> THEN
            IF ~is_chord(word) THEN None
            ELSE Some(Append(chords, SongChord(word, start)))
        ELSE Some(chords)
    ELSE
        LET c == line[pos + 1] IN
        IF c = " " THEN
            IF word # <<>> THEN
                IF ~is_chord(word) THEN None
                ELSE chords_loop_at_space(line, pos + 1, <<>>,
                                          Append(chords, SongChord(word, start)), pos)
            ELSE chords_loop_at_space(line, pos + 1, word, chords, pos)
        ELSE chords_loop_at_space(line, pos + 1, Append(word, c), chords, start)

\* parse_chords with that loop
parse_chords_at_space(line) == chords_loop_at_space(line, 0, <<>>, <<>>, 0)

\* SongParser::parse_chords
parse_chords(line) == chords_loop(line, 0, <<>>, <<>>, 0)

(***************************************************************************)
(* The document model and the parser.                                      *)
(***************************************************************************)
SongLine(text, chords) == [text |-> text, chords |-> chords]
SongPart(name, lines) == [name |-> name, lines |-> lines]

\* SongPart::default(), what mem::take leaves behind
SongPartDefault == SongPart(<<>>, <<>>)

\* SongParser::default()
SongParserDefault ==
    [song |-> [title |-> <<>>, metadata |-> <<>>, parts |-> <<>>],
     state |-> "START",
     last_chords |-> <<>>,
     part |-> SongPartDefault]

\* SongPart::is_empty
is_empty(part) == part.name = <<>> /\ part.lines = <<>>

\* HashMap::insert: the map is a function from its keys
map_insert(m, k, v) == [x \in (DOMAIN m) \cup {k} |-> IF x = k THEN v ELSE m[x]]

\* The matches of ^\s*(.*): (.*)\s*$ in line, each <<w, p>>: \s* takes the first
\* w characters and ": " stands at index p.
MetadataMatches(line) ==
    {x \in (0..LeadingWs(line)) \X (1..Len(line)) :
        x[2] > x[1] /\ HasAt(line, x[2], <<":", " ">>)}

\* MetadataCaptures with a lazy first group: the split is at the first ": "
MetadataCaptures_first(line) ==
    IF MetadataMatches(line) = {} THEN None
    ELSE LET m == CHOOSE x \in MetadataMatches(line) :
                      \A y \in MetadataMatches(line) :
                          y[1] < x[1] \/ (y[1] = x[1] /\ y[2] >= x[2])
         IN  Some(<<SubSeq(line, m[1] + 1, m[2] - 1), SubSeq(line, m[2] + 2, Len(line))>>)

\* RE.captures(line) of parse_metadata: the leftmost-greedy match, \s* as long
\* as it can be, then the first (.*) as long as it can be, then the second
MetadataCaptures(line) ==
    IF MetadataMatches(line) = {} THEN None
    ELSE LET m == CHOOSE x \in MetadataMatches(line) :
                      \A y \in MetadataMatches(line) :
                          y[1] < x[1] \/ (y[1] = x[1] /\ y[2] <= x[2])
         IN  Some(<<SubSeq(line, m[1] + 1, m[2] - 1), SubSeq(line, m[2] + 2, Len(line))>>)

\* SongParser::parse_metadata: <<the parser afterwards, the value returned>>
parse_metadata(p, line) ==
    LET groups == MetadataCaptures(line) IN
    IF ~groups.some THEN <<p, FALSE>>
    ELSE <<[p EXCEPT !.song.metadata = map_insert(@, groups.val[1], groups.val[2])], TRUE>>

\* RE.captures(line) of parse_part, ^\s*(.*):$ : the line ends with a colon; \s*
\* takes all the leading whitespace and the group the rest up to the colon
HeaderCaptures(line) ==
    IF line # <<>> /\ line[Len(line)] = ":"
    THEN Some(SubSeq(line, LeadingWs(line) + 1, Len(line) - 1))
    ELSE None

\* parse_part_line where a chord line replaces the pending chords and the
\* chords it replaces are not put on a line of their own
parse_part_line_overwrite(p, line) ==
    LET chords == parse_chords(line) IN
    IF chords.some THEN [p EXCEPT !.last_chords = chords.val]
    ELSE [p EXCEPT !.part.lines = Append(@, SongLine(line, p.last_chords)),
                   !.last_chords = <<>>]

\* parse_part_line where a lyric line copies the pending chords and leaves
\* them pending
parse_part_line_keep(p, line) ==
    LET chords == parse_chords(line) IN
    IF chords.some THEN
        LET swapped == p.last_chords
            q == [p EXCEPT !.last_chords = chords.val]
        IN  IF swapped # <<>>
            THEN [q EXCEPT !.part.lines = Append(@, SongLine(<<>>, swapped))]
            ELSE q
    ELSE [p EXCEPT !.part.lines = Append(@, SongLine(line, p.last_chords))]

\* parse_part_line without `if !chords.is_empty()`: the chords swapped out
\* are put on a line of their own also when there are none
parse_part_line_push_always(p, line) ==
    LET chords == parse_chords(line) IN
    IF chords.some THEN
        [p EXCEPT !.last_chords = chords.val,
                  !.part.lines = Append(@, SongLine(<<>>, p.last_chords))]
    ELSE [p EXCEPT !.part.lines = Append(@, SongLine(line, p.last_chords)),
                   !.last_chords = <<>>]

\* the chord line and lyric line part of parse_part (lines 311-329)
parse_part_line(p, line) ==
    LET chords == parse_chords(line) IN
    IF chords.some THEN
        \* mem::swap(&mut self.last_chords, &mut chords)
        LET swapped == p.last_chords
            q == [p EXCEPT !.last_chords = chords.val]
        IN  IF swapped # <<>>
            THEN [q EXCEPT !.part.lines = Append(@, SongLine(<<>>, swapped))]
            ELSE q
    ELSE [p EXCEPT !.part.lines = Append(@, SongLine(line, p.last_chords)),
                   !.last_chords = <<>>]

\* SongParser::parse_part
parse_part(p, line) ==
    IF is_empty(p.part) /\ HeaderCaptures(line).some
    THEN [p EXCEPT !.part.name = HeaderCaptures(line).val]
    ELSE parse_part_line(p, line)

\* flush_part without the line of the pending chords
flush_part_no_chords(p) ==
    [p EXCEPT !.song.parts = Append(@, p.part), !.part = SongPartDefault,
              !.last_chords = <<>>]

\* flush_part that makes the part the only part of the song
flush_part_replace(p) ==
    LET q == IF p.last_chords # <<>>
             THEN [p EXCEPT !.part.lines = Append(@, SongLine(<<>>, p.last_chords)),
                            !.last_chords = <<>>]
             ELSE p
    IN  [q EXCEPT !.song.parts = <<q.part>>, !.part = SongPartDefault]

\* the BODY arm of parse_line, when the trimmed line is empty (lines 260-273)
flush_part(p) ==
    LET q == IF p.last_chords # <<>>
             THEN [p EXCEPT !.part.lines = Append(@, SongLine(<<>>, p.last_chords)),
                            !.last_chords = <<>>]
             ELSE p
    IN  [q EXCEPT !.song.parts = Append(@, q.part), !.part = SongPartDefault]

\* parse_line_body without the early return on an empty part
parse_line_body_no_guard(p, line) ==
    IF trim(line) = <<>> THEN parse_part(flush_part(p), line)
    ELSE parse_part(p, line)

\* the BODY arm of parse_line (lines 258-277)
parse_line_body(p, line) ==
    IF trim(line) = <<>> THEN
        IF is_empty(p.part) THEN p
        ELSE parse_part(flush_part(p), line)
    ELSE parse_part(p, line)

\* parse_line that takes the raw line, not the trimmed line, as the title
parse_line_raw_title(p, line) ==
    LET trimmed_line == trim(line) IN
    CASE p.state = "START" ->
            IF trimmed_line = <<>> THEN p
            ELSE [p EXCEPT !.song.title = line, !.state = "DEFINITION"]
      [] p.state = "DEFINITION" ->
            IF trimmed_line = <<>> THEN p
            ELSE LET r == parse_metadata(p, line) IN
                 IF ~r[2] THEN parse_line_body([r[1] EXCEPT !.state = "BODY"], line)
                 ELSE r[1]
      [] p.state = "BODY" -> parse_line_body(p, line)

\* parse_line that does not process again the line that ends the metadata
parse_line_drop(p, line) ==
    LET trimmed_line == trim(line) IN
    CASE p.state = "START" ->
            IF trimmed_line = <<>> THEN p
            ELSE [p EXCEPT !.song.title = trimmed_line, !.state = "DEFINITION"]
      [] p.state = "DEFINITION" ->
            IF trimmed_line = <<>> THEN p
            ELSE LET r == parse_metadata(p, line) IN
                 IF ~r[2] THEN [r[1] EXCEPT !.state = "BODY"]
                 ELSE r[1]
      [] p.state = "BODY" -> parse_line_body(p, line)

\* parse_line that tries the metadata pattern in BODY as well
parse_line_meta_in_body(p, line) ==
    LET trimmed_line == trim(line) IN
    CASE p.state = "START" ->
            IF trimmed_line = <<>> THEN p
            ELSE [p EXCEPT !.song.title = trimmed_line, !.state = "DEFINITION"]
      [] p.state \in {"DEFINITION", "BODY"} ->
            IF trimmed_line = <<>> /\ p.state = "DEFINITION" THEN p
            ELSE LET r == parse_metadata(p, line) IN
                 IF ~r[2] \/ trimmed_line = <<>>
                 THEN parse_line_body([p EXCEPT !.state = "BODY"], line)
                 ELSE r[1]

RECURSIVE parse_line(_, _)
\* SongParser::parse_line
parse_line(p, line) ==
    LET trimmed_line == trim(line) IN
    CASE p.state = "START" ->
            IF trimmed_line = <<>> THEN p
            ELSE [p EXCEPT !.song.title = trimmed_line, !.state = "DEFINITION"]
      [] p.state = "DEFINITION" ->
            IF trimmed_line = <<>> THEN p
            ELSE LET r == parse_metadata(p, line) IN
                 IF ~r[2] THEN parse_line([r[1] EXCEPT !.state = "BODY"], line)
                 ELSE r[1]
      [] p.state = "BODY" -> parse_line_body(p, line)

\* the way parse_part takes on line: the part name, the chord line or the
\* lyric line
part_branch(p, line) ==
    IF is_empty(p.part) /\ HeaderCaptures(line).some THEN "header"
    ELSE IF parse_chords(line).some THEN "chord"
    ELSE "lyric"

\* the way parse_line takes on line: whether the trimmed line is empty, the
\* arm of the match that handles it in the end, whether the part was pushed
\* to the song, and what the line was taken as ("skip": the early return)
call_path(p, line) ==
    LET blank == trim(line) = <<>>
        path(arm, pushed, branch) ==
            [line |-> line, blank |-> blank, arm |-> arm, pushed |-> pushed,
             branch |-> branch]
        body == IF blank THEN
                    IF is_empty(p.part) THEN path("BODY", FALSE, "skip")
                    ELSE path("BODY", TRUE, part_branch(flush_part(p), line))
                ELSE path("BODY", FALSE, part_branch(p, line))
    IN  CASE p.state = "START" ->
                IF blank THEN path("START", FALSE, "skip")
                ELSE path("START", FALSE, "title")
          [] p.state = "DEFINITION" ->
                IF blank THEN path("DEFINITION", FALSE, "skip")
                ELSE IF parse_metadata(p, line)[2]
                THEN path("DEFINITION", FALSE, "metadata")
                ELSE body
          [] p.state = "BODY" -> body

(***************************************************************************)
(* The LaTeX renderer.  The string a renderer returns is a sequence whose   *)
(* elements are characters and the literal fragments of the format strings *)
(* ("\\beginverse\n", ...), in the order of the output.                    *)
(***************************************************************************)
\* str::is_char_boundary: the byte index idx is 0, the length, or the first
\* byte of a character
is_char_boundary(s, idx) ==
    \E k \in 0..Len(s) : str_len(SubSeq(s, 1, k)) = idx

\* String::insert_str, where idx is a character boundary: the text goes after
\* the characters that end before the byte idx
insert_str(s, idx, string) ==
    LET k == CHOOSE k \in 0..Len(s) : str_len(SubSeq(s, 1, k)) = idx
    IN  SubSeq(s, 1, k) \o string \o SubSeq(s, k + 1, Len(s))

\* " ".repeat(n)
repeat_space(n) == [i \in 1..n |-> " "]

RECURSIVE sort_insert(_, _)
\* chord put into the sequence sorted, which is ordered by SongChord::cmp (pos)
sort_insert(sorted, chord) ==
    IF sorted = <<>> THEN <<chord>>
    ELSE IF chord.pos < Head(sorted).pos THEN <<chord>> \o sorted
    ELSE <<Head(sorted)>> \o sort_insert(Tail(sorted), chord)

RECURSIVE sort_unstable(_)
\* Vec::sort_unstable, by SongChord::cmp
sort_unstable(chords) ==
    IF chords = <<>> THEN <<>>
    ELSE sort_insert(sort_unstable(Tail(chords)), Head(chords))

\* Vec::reverse
reverse(v) == [i \in 1..Len(v) |-> v[Len(v) + 1 - i]]

\* format!("\\[{}]", chord.name)
chord_marker(chord) == <<"\\", "[">> \o chord.name \o <<"]">>

RECURSIVE insert_chords(_, _)
\* the loop of SongLine::to_latex over self.chords (lines 47-49): the text out
\* with the markers inserted, or that insert_str panicked
insert_chords(out, chords) ==
    IF chords = <<>> THEN Some(out)
    ELSE IF ~is_char_boundary(out, Head(chords).pos) THEN None
    ELSE insert_chords(insert_str(out, Head(chords).pos, chord_marker(Head(chords))),
                       Tail(chords))

\* the text of SongLine::to_latex before the loop (lines 37-45): the line's
\* text, padded with spaces when the first chord of the reversed order lies
\* beyond its length in bytes
padded_text(text, chords) ==
    LET diff == chords[1].pos - str_len(text)
    IN  IF diff > 0 THEN text \o repeat_space(diff) ELSE text

\* SongLine::to_latex that pads self.text itself, not the clone of it
SongLine_to_latex_in_place(line) ==
    IF line.chords = <<>>
    THEN [panicked |-> FALSE, line |-> line, out |-> line.text \o <<"\n">>]
    ELSE LET chords == reverse(sort_unstable(line.chords))
             sorted == [line EXCEPT !.chords = chords,
                                    !.text = padded_text(line.text, chords)]
             out == insert_chords(padded_text(line.text, chords), chords)
         IN  IF ~out.some THEN [panicked |-> TRUE, line |-> sorted, out |-> <<>>]
             ELSE IF line.text = <<>>
             THEN [panicked |-> FALSE, line |-> sorted,
                   out |-> <<"\\nolyrics{">> \o out.val \o <<"}\n">>]
             ELSE [panicked |-> FALSE, line |-> sorted, out |-> out.val \o <<"\n">>]

\* SongLine::to_latex: [panicked, line: the line afterwards, out: the string]
SongLine_to_latex(line) ==
    IF line.chords = <<>>
    THEN [panicked |-> FALSE, line |-> line, out |-> line.text \o <<"\n">>]
    ELSE LET chords == reverse(sort_unstable(line.chords))
             sorted == [line EXCEPT !.chords = chords]
             out == insert_chords(padded_text(line.text, chords), chords)
         IN  IF ~out.some THEN [panicked |-> TRUE, line |-> sorted, out |-> <<>>]
             ELSE IF line.text = <<>>
             THEN [panicked |-> FALSE, line |-> sorted,
                   out |-> <<"\\nolyrics{">> \o out.val \o <<"}\n">>]
             ELSE [panicked |-> FALSE, line |-> sorted, out |-> out.val \o <<"\n">>]

\* char::to_lowercase, on the characters of the model
to_lowercase_char(c) ==
    CASE c = "A" -> "a" [] c = "B" -> "b" [] c = "C" -> "c" [] c = "D" -> "d"
      [] c = "E" -> "e" [] c = "F" -> "f" [] c = "G" -> "g" [] c = "J" -> "j"
      [] c = "M" -> "m" [] c = "V" -> "v" [] c = "Oslash" -> "oslash"
      [] c = "Delta" -> "delta" [] OTHER -> c

\* str::to_lowercase
to_lowercase(s) == [i \in 1..Len(s) |-> to_lowercase_char(s[i])]

\* the regex ^verse (\d)+$ of SongPart::to_latex
is_verse(s) ==
    /\ Len(s) >= 7
    /\ SubSeq(s, 1, 6) = <<"v", "e", "r", "s", "e", " ">>
    /\ \A i \in 7..Len(s) : s[i] \in {"0", "1", "2", "3", "4", "5", "6", "7", "8", "9"}

RECURSIVE lines_to_latex(_, _)
\* the loop of SongPart::to_latex over self.lines (lines 117-120), from the
\* result acc of the lines before
lines_to_latex(acc, lines) ==
    IF lines = <<>> \/ acc.panicked
    THEN [acc EXCEPT !.lines = @ \o lines]
    ELSE LET r == SongLine_to_latex(Head(lines))
         IN  lines_to_latex([panicked |-> r.panicked,
                             lines |-> Append(acc.lines, r.line),
                             out |-> acc.out \o <<"\t">> \o r.out],
                            Tail(lines))

\* SongPart::to_latex: [panicked, part: the part afterwards, out: the string]
SongPart_to_latex(part) ==
    LET lower_name == to_lowercase(part.name)
        begin == IF lower_name = <<"c", "h", "o", "r", "u", "s">>
                 THEN <<"\\beginchorus\n">>
                 ELSE IF is_verse(lower_name) THEN <<"\\beginverse\n">>
                 ELSE <<"\\beginverse*\n", "\t\\textbf{">> \o part.name \o <<":}\n">>
        end == IF lower_name = <<"c", "h", "o", "r", "u", "s">>
               THEN "\\endchorus\n" ELSE "\\endverse\n"
        r == lines_to_latex([panicked |-> FALSE, lines |-> <<>>, out |-> begin],
                            part.lines)
    IN  [panicked |-> r.panicked,
         part |-> [part EXCEPT !.lines = r.lines],
         out |-> Append(r.out, end)]

RECURSIVE parts_to_latex(_, _)
\* the loop of Song::to_latex over self.parts (lines 161-164)
parts_to_latex(acc, parts) ==
    IF parts = <<>> \/ acc.panicked
    THEN [acc EXCEPT !.parts = @ \o parts]
    ELSE LET r == SongPart_to_latex(Head(parts))
         IN  parts_to_latex([panicked |-> r.panicked,
                             parts |-> Append(acc.parts, r.part),
                             out |-> acc.out \o r.out \o <<"\n">>],
                            Tail(parts))

\* Song::to_latex: [panicked, song: the song afterwards, out: the string]
Song_to_latex(song) ==
    LET artist == <<"a", "r", "t", "i", "s", "t">>
        head == <<"\\beginsong{">> \o song.title \o <<"}">>
                \o (IF artist \in DOMAIN song.metadata
                    THEN <<"[by={">> \o song.metadata[artist] \o <<"}">>
                    ELSE <<>>)
                \o <<"\n\n">>
        r == parts_to_latex([panicked |-> FALSE, parts |-> <<>>, out |-> head],
                            song.parts)
    IN  [panicked |-> r.panicked,
         song |-> [song EXCEPT !.parts = r.parts],
         out |-> IF r.panicked THEN <<>> ELSE Append(r.out, "\\endsong\n")]

(***************************************************************************)
(* The HTML renderer.  The string it returns is a sequence of pieces, each *)
(* a character or a literal fragment and the number of times it is         *)
(* repeated.  chord.pos and last are u32: where the build checks overflow  *)
(* (checked) a subtraction below zero panics, where it does not the        *)
(* difference wraps modulo 2^32: a negative number of times n stands for   *)
(* the wrapped 2^32 + n, which is beyond the integers of TLC.              *)
(***************************************************************************)
Piece(s) == [text |-> s, times |-> 1]

\* the pieces of the characters of a string
Pieces(s) == [i \in 1..Len(s) |-> Piece(s[i])]

\* " ".repeat(n)
Spaces(n) == [text |-> " ", times |-> n]

RECURSIVE chords_to_html(_, _, _, _)
\* the loop of SongLine::to_html over self.chords (lines 64-68), from the
\* result acc of the chords before: [panicked, wrapped, out]
chords_to_html(acc, chords, last, checked) ==
    IF chords = <<>> \/ acc.panicked THEN acc
    ELSE LET chord == Head(chords)
             below == chord.pos < last
             gap == chord.pos - last
         IN  IF below /\ checked THEN [acc EXCEPT !.panicked = TRUE]
             ELSE chords_to_html(
                      [panicked |-> FALSE,
                       wrapped |-> acc.wrapped \/ below,
                       out |-> acc.out \o <<Spaces(gap)>> \o Pieces(chord.name)],
                      Tail(chords),
                      chord.pos + str_len(chord.name),
                      checked)

\* SongLine::to_html: [panicked, wrapped, out]
SongLine_to_html(line, checked) ==
    LET b == IF line.chords # <<>>
             THEN LET r == chords_to_html([panicked |-> FALSE, wrapped |-> FALSE,
                                           out |-> <<Piece("<b>")>>],
                                          line.chords, 0, checked)
                  IN  [r EXCEPT !.out = Append(@, Piece("</b>\n"))]
             ELSE [panicked |-> FALSE, wrapped |-> FALSE, out |-> <<>>]
    IN  IF line.text # <<>>
        THEN [b EXCEPT !.out = @ \o Pieces(line.text) \o <<Piece("\n")>>]
        ELSE b

RECURSIVE lines_to_html(_, _, _)
\* the loop of SongPart::to_html over self.lines (lines 132-134)
lines_to_html(acc, lines, checked) ==
    IF lines = <<>> \/ acc.panicked THEN acc
    ELSE LET r == SongLine_to_html(Head(lines), checked)
         IN  lines_to_html([panicked |-> r.panicked,
                            wrapped |-> acc.wrapped \/ r.wrapped,
                            out |-> acc.out \o r.out],
                           Tail(lines), checked)

\* SongPart::to_html
SongPart_to_html(part, checked) ==
    lines_to_html([panicked |-> FALSE, wrapped |-> FALSE,
                   out |-> <<Piece("<em>")>> \o Pieces(part.name) \o <<Piece(":</em>\n")>>],
                  part.lines, checked)

RECURSIVE parts_to_html(_, _, _)
\* the loop of Song::to_html over self.parts (lines 188-191)
parts_to_html(acc, parts, checked) ==
    IF parts = <<>> \/ acc.panicked THEN acc
    ELSE LET r == SongPart_to_html(Head(parts), checked)
         IN  parts_to_html([panicked |-> r.panicked,
                            wrapped |-> acc.wrapped \/ r.wrapped,
                            out |-> acc.out \o r.out \o <<Piece("\n\n")>>],
                           Tail(parts), checked)

RECURSIVE metadata_to_html(_, _)
\* the loop of Song::to_html over self.metadata.iter() (lines 182-184), the
\* keys in the order the map iterates them in
metadata_to_html(metadata, keys) ==
    IF keys = <<>> THEN <<>>
    ELSE Pieces(Head(keys)) \o <<Piece(": ")>> \o Pieces(metadata[Head(keys)])
         \o <<Piece("\n")>> \o metadata_to_html(metadata, Tail(keys))

\* the orders a HashMap may iterate its keys in
iter_orders(metadata) ==
    {f \in [1..Cardinality(DOMAIN metadata) -> DOMAIN metadata] :
        \A i, j \in DOMAIN f : f[i] = f[j] => i = j}

\* Song::to_html: [panicked, wrapped, out]
Song_to_html(song, keys, checked) ==
    LET head == <<Piece("<pre>"), Piece("<h1>")>> \o Pieces(song.title)
                \o <<Piece("</h1>\n")>> \o metadata_to_html(song.metadata, keys)
                \o <<Piece("\n\n")>>
        r == parts_to_html([panicked |-> FALSE, wrapped |-> FALSE, out |-> head],
                           song.parts, checked)
    IN  IF r.panicked THEN [r EXCEPT !.out = <<>>]
        ELSE [r EXCEPT !.out = Append(@, Piece("</pre>"))]

(***************************************************************************)
(* main and SongParser::parse: the lines of the input are handed to        *)
(* parse_line one at a time, then the empty line that stands for the end   *)
(* of the input; main then prints the song or renders it.  Song::to_html   *)
(* is public and is called on the parsed song, before or after to_latex.   *)
(***************************************************************************)
NoCall == [called |-> FALSE]

\* the lines the input is made of
BlankLine == <<>>
TabLine == <<"\t">>
HeaderLine == <<"V", ":">>
ColonLine == <<" ", " ", ":">>
ChordLineA == <<" ", "A">>
ChordLineGD == <<"G", " ", "D">>
LyricLine == <<"h">>
AccentLine == <<"eacute">>
ArtistLine == <<"a", "r", "t", "i", "s", "t", ":", " ", "J">>

InputLines == {BlankLine, TabLine, HeaderLine, ColonLine, ChordLineA, ChordLineGD,
               LyricLine, AccentLine, ArtistLine}

Init ==
    /\ pc = "lines"
    /\ parser = SongParserDefault
    /\ calls = <<>>
    /\ latex = NoCall
    /\ html = NoCall
    /\ arg = <<>>
    /\ ret = NoCall

\* parse, lines 224-226: one round of the loop over content.lines()
ParseLine ==
    /\ pc = "lines"
    /\ Len(calls) < MaxLines
    /\ \E line \in InputLines :
          /\ parser' = parse_line(parser, line)
          /\ calls' = Append(calls, call_path(parser, line))
    /\ UNCHANGED <<pc, latex, html, arg, ret>>

\* parse, lines 227-229: the end of the input
EndOfInput ==
    /\ pc = "lines"
    /\ parser' = parse_line(parser, <<>>)
    /\ calls' = Append(calls, call_path(parser, <<>>))
    /\ pc' = "parsed"
    /\ UNCHANGED <<latex, html, arg, ret>>

\* main, "to-ron": the song is printed as it is
ToRon ==
    /\ pc = "parsed"
    /\ pc' = "printed"
    /\ UNCHANGED <<parser, calls, latex, html, arg, ret>>

\* main, "to-latex": song.to_latex()
ToLatex ==
    /\ pc = "parsed"
    /\ LET r == Song_to_latex(parser.song) IN
          /\ parser' = [parser EXCEPT !.song = r.song]
          /\ latex' = [called |-> TRUE, panicked |-> r.panicked, out |-> r.out]
          /\ pc' = IF r.panicked THEN "panicked" ELSE "rendered"
    /\ UNCHANGED <<calls, html, arg, ret>>

\* song.to_html(), on the song as parsed or after song.to_latex()
ToHtml ==
    /\ pc \in {"parsed", "rendered"}
    /\ \E keys \in iter_orders(parser.song.metadata), checked \in BOOLEAN :
          LET r == Song_to_html(parser.song, keys, checked) IN
             /\ html' = [called |-> TRUE, after_latex |-> latex.called, keys |-> keys,
                         checked |-> checked, panicked |-> r.panicked,
                         wrapped |-> r.wrapped, out |-> r.out]
             /\ pc' = IF r.panicked THEN "panicked" ELSE "html"
    /\ UNCHANGED <<parser, calls, latex, arg, ret>>

Next == ParseLine \/ EndOfInput \/ ToRon \/ ToLatex \/ ToHtml

Spec == Init /\ [][Next]_vars

(***************************************************************************)
(* parse on inputs made of metadata lines: the title, then lines with and  *)
(* without the separator ": ".                                             *)
(***************************************************************************)
KeyLineV == <<"k", ":", " ", "v">>
KeyLineW == <<"k", ":", " ", "w">>
PaddedKeyLine == <<" ", "k", ":", " ", "v", " ">>
TwoSeparatorsLine == <<"k", ":", " ", ":", " ", "v">>
EmptyKeyLine == <<":", " ">>
NoSpaceLine == <<"k", ":", "v">>

DefinitionLines == {BlankLine, LyricLine, KeyLineV, KeyLineW, PaddedKeyLine,
                    TwoSeparatorsLine, EmptyKeyLine, NoSpaceLine}

\* parse, lines 224-226: one round of the loop over content.lines()
ParseDefinitionLine ==
    /\ pc = "lines"
    /\ Len(calls) < MaxLines
    /\ \E line \in DefinitionLines :
          /\ parser' = parse_line(parser, line)
          /\ calls' = Append(calls, call_path(parser, line))
    /\ UNCHANGED <<pc, latex, html, arg, ret>>

NextDefinition == ParseDefinitionLine \/ EndOfInput

SpecDefinition == Init /\ [][NextDefinition]_vars

(***************************************************************************)
(* is_chord and parse_chords on their own, called on every short string.   *)
(***************************************************************************)
\* the strings over chars of length at most n
Strings(chars, n) == UNION {[1..k -> chars] : k \in 0..n}

TokChars == {"C", "b", "m", "s", "u", "1", "3", "+", "/"}
TokExamples == {<<"C", "m", "7">>, <<"C", "/", "G">>,
                <<"C", "s", "u", "s", "4", "a", "d", "d", "9">>,
                <<"H">>, <<"C", "x">>}
Tokens == Strings(TokChars, MaxTokLen) \cup TokExamples

LineChars == {" ", "\t", "C", "Delta", "x"}
Lines == Strings(LineChars, MaxLineLen)

InitIsChord ==
    /\ pc = "is_chord"
    /\ arg \in Tokens
    /\ ret = NoCall
    /\ parser = SongParserDefault
    /\ calls = <<>>
    /\ latex = NoCall
    /\ html = NoCall

CallIsChord ==
    /\ pc = "is_chord"
    /\ ret' = is_chord(arg)
    /\ pc' = "is_chord returned"
    /\ UNCHANGED <<parser, calls, latex, html, arg>>

SpecIsChord == InitIsChord /\ [][CallIsChord]_vars

InitParseChords ==
    /\ pc = "parse_chords"
    /\ arg \in Lines
    /\ ret = NoCall
    /\ parser = SongParserDefault
    /\ calls = <<>>
    /\ latex = NoCall
    /\ html = NoCall

CallParseChords ==
    /\ pc = "parse_chords"
    /\ ret' = parse_chords(arg)
    /\ pc' = "parse_chords returned"
    /\ UNCHANGED <<parser, calls, latex, html, arg>>

SpecParseChords == InitParseChords /\ [][CallParseChords]_vars

(***************************************************************************)
(* The chord grammar of the specification, section 4.1, as a grammar: a    *)
(* string is derived when it splits into the parts the production names.   *)
(***************************************************************************)
GrammarRoot == {"A", "B", "C", "D", "E", "F", "G"}
GrammarAccidental == {<<"b">>, <<"#">>}
GrammarQuality == {<<"m">>, <<"M">>, <<"m", "i", "n">>, <<"m", "a", "j">>,
                   <<"d", "i", "m">>, <<"Delta">>, <<"deg">>, <<"oslash">>, <<"Oslash">>}
GrammarSusAdd == {<<"s", "u", "s">>, <<"a", "d", "d">>}
GrammarDegree == {<<"2">>, <<"4">>, <<"5">>, <<"6">>, <<"7">>, <<"9">>,
                  <<"1", "0">>, <<"1", "1">>, <<"1", "3">>}
GrammarAlteration == {<<"+">>, <<"a", "u", "g">>, <<"a", "l", "t">>}

\* x? : x or nothing
Optional(alts) == alts \cup {<<>>}

\* extension := ("sus" | "add")? accidental? degree?
DerivesExtension(s) ==
    \E a \in Optional(GrammarSusAdd), b \in Optional(GrammarAccidental),
       d \in Optional(GrammarDegree) : s = a \o b \o d

RECURSIVE DerivesExtensions(_)
\* extension*
DerivesExtensions(s) ==
    \/ s = <<>>
    \/ \E k \in 1..Len(s) :
          /\ DerivesExtension(SubSeq(s, 1, k))
          /\ DerivesExtensions(SubSeq(s, k + 1, Len(s)))

\* slash := '/' root accidental?
DerivesSlash(s) ==
    /\ Len(s) \in {2, 3}
    /\ s[1] = "/"
    /\ s[2] \in GrammarRoot
    /\ Len(s) = 3 => <<s[3]>> \in GrammarAccidental

\* chord := root accidental? quality? extension* alteration? slash?
DerivesChord(t) ==
    /\ t # <<>>
    /\ t[1] \in GrammarRoot
    /\ \E a \in Optional(GrammarAccidental) :
          /\ HasAt(t, 2, a)
          /\ \E q \in Optional(GrammarQuality) :
                /\ HasAt(t, 2 + Len(a), q)
                /\ \E i \in (1 + Len(a) + Len(q))..Len(t), j \in 0..Len(t) :
                      /\ i <= j
                      /\ SubSeq(t, i + 1, j) \in Optional(GrammarAlteration)
                      /\ DerivesExtensions(SubSeq(t, 2 + Len(a) + Len(q), i))
                      /\ (j = Len(t) \/ DerivesSlash(SubSeq(t, j + 1, Len(t))))

(***************************************************************************)
(* C7.  parse_chords(L) is None exactly when one of the maximal runs of    *)
(* characters other than the space in L is not a chord; otherwise it       *)
(* returns one entry for each run, in the order of the runs, with the      *)
(* run as the name and the character index of its start as the offset.     *)
(***************************************************************************)
\* the maximal runs of characters other than " " in L, each <<first, last>>
TokenRuns(L) ==
    {r \in (1..Len(L)) \X (1..Len(L)) :
        /\ r[1] <= r[2]
        /\ \A k \in r[1]..r[2] : L[k] # " "
        /\ (r[1] = 1 \/ L[r[1] - 1] = " ")
        /\ (r[2] = Len(L) \/ L[r[2] + 1] = " ")}

ParseChordsTokens ==
    pc = "parse_chords returned" =>
        /\ ret.some <=> \A r \in TokenRuns(arg) : is_chord(SubSeq(arg, r[1], r[2]))
        /\ ret.some =>
              /\ Len(ret.val) = Cardinality(TokenRuns(arg))
              /\ \A k \in 1..Len(ret.val) :
                    \E r \in TokenRuns(arg) :
                        /\ ret.val[k].name = SubSeq(arg, r[1], r[2])
                        /\ ret.val[k].pos = r[1] - 1
              /\ \A k \in 1..(Len(ret.val) - 1) : ret.val[k].pos < ret.val[k + 1].pos

\* a line of two chords, the second after a two-byte character and two spaces
ParseChordsTokensWitness ==
    /\ pc = "parse_chords returned"
    /\ arg = <<"C", "Delta", " ", " ", "C">>
    /\ ret = Some(<<SongChord(<<"C", "Delta">>, 0), SongChord(<<"C">>, 4)>>)

(***************************************************************************)
(* C8.  is_chord(t) is true exactly when the grammar of section 4.1        *)
(* derives the whole of t.                                                 *)
(***************************************************************************)
IsChordIsGrammar ==
    pc = "is_chord returned" => (ret <=> DerivesChord(arg))

IsChordIsGrammarWitness ==
    /\ pc = "is_chord returned"
    /\ arg = <<"C", "s", "u", "s", "4", "a", "d", "d", "9">>
    /\ ret = TRUE

(***************************************************************************)
(* The claims about the parser.  A chord line and a lyric line are lines   *)
(* whose trimmed content is not empty; a line whose trimmed content is     *)
(* empty is a part boundary.                                               *)
(***************************************************************************)
\* the k-th call handled a chord line in BODY
ChordCall(c) == ~c.blank /\ c.branch = "chord"

\* the k-th call handled a lyric line in BODY
LyricCall(c) == ~c.blank /\ c.branch = "lyric"

\* the chords of the chord line of call c
ChordsOf(c) == parse_chords(c.line).val

\* the places <<part, line>> of the lines of the song
LinePlaces(song) ==
    {x \in (1..Len(song.parts)) \X (1..(Len(calls) + 1)) : x[2] <= Len(song.parts[x[1]].lines)}

LineAt(song, x) == song.parts[x[1]].lines[x[2]]

\* a part is present: it has a name or a line
Present(part) == part.name # <<>> \/ part.lines # <<>>

\* the transition is a call of parse_line by parse
IsCall == pc = "lines" /\ Len(calls') = Len(calls) + 1

(***************************************************************************)
(* C1.  When parse returns, the pending chords are empty and every chord   *)
(* line processed in BODY has its chords in exactly one Line of the Song   *)
(* (as many Lines hold a chord sequence as chord lines gave it).           *)
(***************************************************************************)
EndOfInputFlushesAll ==
    pc = "parsed" =>
        /\ parser.last_chords = <<>>
        /\ \A k \in 1..Len(calls) :
              ChordCall(calls[k]) =>
                  Cardinality({x \in LinePlaces(parser.song) :
                                  LineAt(parser.song, x).chords = ChordsOf(calls[k])})
                  = Cardinality({m \in 1..Len(calls) :
                                  ChordCall(calls[m]) /\ ChordsOf(calls[m]) = ChordsOf(calls[k])})

(***************************************************************************)
(* C2, as claimed.  Two chord lines processed one after the other give two *)
(* distinct Lines with empty text in the returned Song, the first with the *)
(* chords of the first chord line and a later one with the chords of the   *)
(* second.                                                                 *)
(***************************************************************************)
Before(x, y) == x[1] < y[1] \/ (x[1] = y[1] /\ x[2] < y[2])

ConsecutiveChordLinesBothEmptyText ==
    pc = "parsed" =>
        \A k \in 1..(Len(calls) - 1) :
            ChordCall(calls[k]) /\ ChordCall(calls[k + 1]) =>
                \E x, y \in LinePlaces(parser.song) :
                    /\ Before(x, y)
                    /\ LineAt(parser.song, x) = SongLine(<<>>, ChordsOf(calls[k]))
                    /\ LineAt(parser.song, y) = SongLine(<<>>, ChordsOf(calls[k + 1]))

(***************************************************************************)
(* C2, amended.  Two chord lines processed one after the other give, in    *)
(* one Part of the returned Song, a Line with empty text and the chords of *)
(* the first chord line, directly followed by a Line with the chords of    *)
(* the second; the text of that Line is the lyric line that follows the    *)
(* second chord line, and empty when no lyric line follows it.             *)
(***************************************************************************)
ConsecutiveChordLines ==
    pc = "parsed" =>
        \A k \in 1..(Len(calls) - 1) :
            ChordCall(calls[k]) /\ ChordCall(calls[k + 1]) =>
                \E x \in LinePlaces(parser.song) :
                    /\ LineAt(parser.song, x) = SongLine(<<>>, ChordsOf(calls[k]))
                    /\ <<x[1], x[2] + 1>> \in LinePlaces(parser.song)
                    /\ LineAt(parser.song, <<x[1], x[2] + 1>>) =
                          SongLine(IF k + 2 <= Len(calls) /\ LyricCall(calls[k + 2])
                                   THEN calls[k + 2].line ELSE <<>>,
                                   ChordsOf(calls[k + 1]))

\* title, two chord lines, a lyric line
ConsecutiveChordLinesWitness ==
    /\ pc = "parsed"
    /\ Len(calls) = 5
    /\ calls[2].line = ChordLineA /\ ChordCall(calls[2])
    /\ calls[3].line = ChordLineGD /\ ChordCall(calls[3])
    /\ calls[4].line = LyricLine /\ LyricCall(calls[4])
    /\ parser.song.parts =
          <<SongPart(<<>>, <<SongLine(<<>>, <<SongChord(<<"A">>, 1)>>),
                             SongLine(LyricLine, <<SongChord(<<"G">>, 0),
                                                   SongChord(<<"D">>, 2)>>)>>)>>

(***************************************************************************)
(* C3.  Every Part of the Song has a name or a Line, at every moment, and  *)
(* a call of parse_line adds a Part to the Song only when the line is a    *)
(* blank line and the Part under construction is present before the call;  *)
(* it then adds one Part.                                                  *)
(***************************************************************************)
PartsArePresent == \A i \in 1..Len(parser.song.parts) : Present(parser.song.parts[i])

AppendsPresentPart ==
    pc = "lines" /\ parser'.song.parts # parser.song.parts =>
        /\ Present(parser.part)
        /\ calls'[Len(calls')].blank
        /\ Len(parser'.song.parts) = Len(parser.song.parts) + 1
        /\ SubSeq(parser'.song.parts, 1, Len(parser.song.parts)) = parser.song.parts

NoEmptyPart == []PartsArePresent /\ [][AppendsPresentPart]_vars

\* a part was appended, and a blank line in BODY found the part empty
NoEmptyPartWitness ==
    /\ Len(parser.song.parts) = 1
    /\ \E k \in 1..Len(calls) :
          calls[k].arm = "BODY" /\ calls[k].blank /\ calls[k].branch = "skip"
    /\ \E k \in 1..Len(calls) : calls[k].line = ColonLine /\ calls[k].branch = "header"

(***************************************************************************)
(* C4.  After body lines that end in a blank line, the Song has as many    *)
(* Parts as the body lines have maximal groups of non-blank lines.         *)
(***************************************************************************)
BodyCall(c) == c.arm = "BODY"

GroupStarts ==
    {k \in 1..Len(calls) :
        /\ BodyCall(calls[k]) /\ ~calls[k].blank
        /\ (k = 1 \/ ~BodyCall(calls[k - 1]) \/ calls[k - 1].blank)}

PartsEqualGroups ==
    ( /\ pc \in {"lines", "parsed"}
      /\ calls # <<>>
      /\ BodyCall(calls[Len(calls)])
      /\ calls[Len(calls)].blank )
    => Len(parser.song.parts) = Cardinality(GroupStarts)

(***************************************************************************)
(* C5.  When the line of a call is a lyric line and the line of the call   *)
(* before it was a chord line, the call appends one Line to the Part under *)
(* construction, with the raw lyric line as its text and the chords of the *)
(* chord line as its chords, and leaves no chords pending.                 *)
(***************************************************************************)
ChordThenLyricStep ==
    ( /\ IsCall
      /\ calls # <<>>
      /\ ChordCall(calls[Len(calls)])
      /\ LyricCall(calls'[Len(calls')]) )
    => /\ parser'.part.lines =
             Append(parser.part.lines,
                    SongLine(calls'[Len(calls')].line, ChordsOf(calls[Len(calls)])))
       /\ parser'.last_chords = <<>>
       /\ parser'.song.parts = parser.song.parts

ChordThenLyric == [][ChordThenLyricStep]_vars

\* title, part header, chord line, lyric line
ChordThenLyricWitness ==
    /\ pc = "lines"
    /\ Len(calls) = 4
    /\ calls[2].line = HeaderLine
    /\ calls[3].line = ChordLineGD /\ ChordCall(calls[3])
    /\ calls[4].line = LyricLine /\ LyricCall(calls[4])
    /\ parser.part = SongPart(<<"V">>, <<SongLine(LyricLine, <<SongChord(<<"G">>, 0),
                                                                SongChord(<<"D">>, 2)>>)>>)
    /\ parser.last_chords = <<>>

(***************************************************************************)
(* C6.  When a blank line (or the end of the input) is processed in BODY   *)
(* while the Part under construction is present and chords are pending,    *)
(* the Part is appended to the Song with a last Line of empty text and     *)
(* the pending chords, and no chords are pending afterwards.               *)
(***************************************************************************)
BoundaryFlushesPendingStep ==
    ( /\ IsCall
      /\ parser.state = "BODY"
      /\ calls'[Len(calls')].blank
      /\ Present(parser.part)
      /\ parser.last_chords # <<>> )
    => /\ parser'.song.parts =
             Append(parser.song.parts,
                    SongPart(parser.part.name,
                             Append(parser.part.lines, SongLine(<<>>, parser.last_chords))))
       /\ parser'.last_chords = <<>>

BoundaryFlushesPending == [][BoundaryFlushesPendingStep]_vars

\* title, part header, chord line, end of input
BoundaryFlushesPendingWitness ==
    /\ pc = "parsed"
    /\ Len(calls) = 4
    /\ calls[2].line = HeaderLine
    /\ calls[3].line = ChordLineA /\ ChordCall(calls[3])
    /\ calls[4].blank /\ calls[4].pushed
    /\ parser.song.parts = <<SongPart(<<"V">>, <<SongLine(<<>>, <<SongChord(<<"A">>, 1)>>)>>)>>
    /\ parser.last_chords = <<>>

(***************************************************************************)
(* The claims about the LaTeX renderer.                                    *)
(***************************************************************************)
\* what SongLine::to_latex returns without the fragments of its format
\* strings: the text with the chord markers
LineBody(out) == SelectSeq(out, LAMBDA c : c \notin {"\n", "\\nolyrics{", "}\n"})

RECURSIVE AfterMarker(_)
\* s, which starts in a marker, from the character after the marker's "]"
AfterMarker(s) ==
    IF s = <<>> THEN <<>>
    ELSE IF Head(s) = "]" THEN Tail(s)
    ELSE AfterMarker(Tail(s))

RECURSIVE MarkerName(_)
\* the name of the marker that s starts in, s from the character after "\["
MarkerName(s) ==
    IF s = <<>> \/ Head(s) = "]" THEN <<>>
    ELSE <<Head(s)>> \o MarkerName(Tail(s))

RECURSIVE WithoutMarkers(_)
\* s with every marker \[...] removed
WithoutMarkers(s) ==
    IF s = <<>> THEN <<>>
    ELSE IF Head(s) = "\\" THEN WithoutMarkers(AfterMarker(s))
    ELSE <<Head(s)>> \o WithoutMarkers(Tail(s))

RECURSIVE Markers(_, _)
\* the markers of s from left to right, each with its name and the number of
\* characters of text before it, n of them before s
Markers(s, n) ==
    IF s = <<>> THEN <<>>
    ELSE IF Head(s) = "\\"
    THEN <<SongChord(MarkerName(Tail(Tail(s))), n)>> \o Markers(AfterMarker(s), n)
    ELSE Markers(Tail(s), n + 1)

\* text padded with spaces on the right to the length n
PaddedTo(text, n) ==
    IF n > Len(text) THEN text \o [i \in 1..(n - Len(text)) |-> " "] ELSE text

(***************************************************************************)
(* C9.  For every Line of a parsed Song that has a chord, what             *)
(* SongLine::to_latex returns is, with the markers removed, the text       *)
(* padded with spaces to the largest chord offset, and each chord's marker *)
(* has as many characters of text before it as the chord's offset.         *)
(* (A call that panics returns nothing and is the matter of C10.)          *)
(***************************************************************************)
ChordsAtCharacterOffsets ==
    pc = "parsed" =>
        \A x \in LinePlaces(parser.song) :
            LET line == LineAt(parser.song, x)
                r == SongLine_to_latex(line)
            IN  line.chords # <<>> /\ ~r.panicked =>
                    /\ WithoutMarkers(LineBody(r.out)) =
                          PaddedTo(line.text, line.chords[Len(line.chords)].pos)
                    /\ Markers(LineBody(r.out), 0) = line.chords

(***************************************************************************)
(* C10.  Song::to_latex returns for every Song that parse produced: no     *)
(* insertion of a chord marker is at an invalid index.                     *)
(***************************************************************************)
ToLatexReturns == latex.called => ~latex.panicked

(***************************************************************************)
(* The song as parse returned it, from the lines of the calls.             *)
(***************************************************************************)
RECURSIVE Reparse(_, _)
Reparse(p, cs) ==
    IF cs = <<>> THEN p ELSE Reparse(parse_line(p, Head(cs).line), Tail(cs))

ParsedSong == Reparse(SongParserDefault, calls).song

(***************************************************************************)
(* C11, as claimed.  After Song::to_latex the Song is as parse returned    *)
(* it: title, metadata, parts, the text of every Line and the content and  *)
(* order of the chords of every Line.                                      *)
(***************************************************************************)
ToLatexLeavesSong == latex.called => parser.song = ParsedSong

(***************************************************************************)
(* C11, amended.  After Song::to_latex the title, the metadata, the parts  *)
(* and their names, the Lines and their texts and the set of chords of     *)
(* every Line are as parse returned them; only the order of the chords of  *)
(* a Line changes: the chords of every Line are in descending order of     *)
(* offset when to_latex has returned, and in that order or in the order    *)
(* of parse when it has panicked.                                          *)
(***************************************************************************)
Descending(chords) ==
    \A i \in 1..(Len(chords) - 1) : chords[i].pos > chords[i + 1].pos

SameChords(a, b) ==
    Len(a) = Len(b) /\ {a[i] : i \in 1..Len(a)} = {b[i] : i \in 1..Len(b)}

ToLatexReordersChordsOnly ==
    latex.called =>
        LET now == parser.song
            was == ParsedSong
        IN  /\ now.title = was.title
            /\ now.metadata = was.metadata
            /\ Len(now.parts) = Len(was.parts)
            /\ \A i \in 1..Len(was.parts) :
                  /\ now.parts[i].name = was.parts[i].name
                  /\ Len(now.parts[i].lines) = Len(was.parts[i].lines)
                  /\ \A j \in 1..Len(was.parts[i].lines) :
                        LET l == now.parts[i].lines[j]
                            w == was.parts[i].lines[j]
                        IN  /\ l.text = w.text
                            /\ SameChords(l.chords, w.chords)
                            /\ Descending(l.chords) \/ l.chords = w.chords
                            /\ ~latex.panicked => Descending(l.chords)

\* to_latex has returned and has put the chords G, D of a Line in the order D, G
ToLatexReordersChordsOnlyWitness ==
    /\ pc = "rendered"
    /\ \E x \in LinePlaces(parser.song) :
          /\ LineAt(parser.song, x).chords = <<SongChord(<<"D">>, 2), SongChord(<<"G">>, 0)>>
          /\ LineAt(ParsedSong, x).chords = <<SongChord(<<"G">>, 0), SongChord(<<"D">>, 2)>>
          /\ LineAt(parser.song, x).text = LyricLine

(***************************************************************************)
(* C20.  Song::to_html after Song::to_latex returns the string it returns  *)
(* on the song as parsed, and chord.pos - last in SongLine::to_html is     *)
(* never below zero.                                                       *)
(***************************************************************************)
HtmlAfterLatexSame ==
    html.called =>
        /\ ~html.panicked
        /\ ~html.wrapped
        /\ html.after_latex =>
              html.out = Song_to_html(ParsedSong, html.keys, html.checked).out

(***************************************************************************)
(* C12.  parse returns a Song for every input: the call for the end of the *)
(* input can always be made.  When no line of the input has content after  *)
(* trimming, the Song has an empty title, no metadata and no parts;        *)
(* otherwise its title is the first such line, trimmed.                    *)
(***************************************************************************)
\* the calls whose line has content
ContentCalls == {k \in 1..Len(calls) : ~calls[k].blank}

ParseAlwaysReturns ==
    /\ pc = "lines" => ENABLED EndOfInput
    /\ pc = "parsed" =>
          IF ContentCalls = {}
          THEN /\ parser.song.title = <<>>
               /\ DOMAIN parser.song.metadata = {}
               /\ parser.song.parts = <<>>
          ELSE LET k == CHOOSE k \in ContentCalls : \A m \in ContentCalls : k <= m
               IN  parser.song.title = trim(calls[k].line)

\* blank lines, then a line with spaces around its content as the title
ParseAlwaysReturnsWitness ==
    /\ pc = "parsed"
    /\ Len(calls) = 4
    /\ calls[1].line = TabLine
    /\ calls[2].line = BlankLine
    /\ calls[3].line = ColonLine
    /\ parser.song.title = <<":">>

(***************************************************************************)
(* C13.  In BODY a call with a blank line changes nothing when the Part    *)
(* under construction is empty; when it is present the call flushes the    *)
(* pending chords into it, appends it to the Song and leaves an empty Part *)
(* under construction, and does nothing else.                              *)
(***************************************************************************)
\* the part with the pending chords flushed into it
Flushed(p) ==
    IF p.last_chords # <<>>
    THEN SongPart(p.part.name, Append(p.part.lines, SongLine(<<>>, p.last_chords)))
    ELSE p.part

BlankLineOnlyBoundaryStep ==
    (IsCall /\ parser.state = "BODY" /\ calls'[Len(calls')].blank) =>
        IF ~Present(parser.part) THEN parser' = parser
        ELSE parser' = [parser EXCEPT !.song.parts = Append(@, Flushed(parser)),
                                      !.part = SongPartDefault,
                                      !.last_chords = <<>>]

BlankLineOnlyBoundary == [][BlankLineOnlyBoundaryStep]_vars

(***************************************************************************)
(* C14.  After a blank line processed in BODY no chords are pending, and   *)
(* the chords of the Line of a lyric line are those of the chord line of   *)
(* the call before it, none when that call had no chord line.              *)
(***************************************************************************)
PendingStaysInPart ==
    (pc = "lines" /\ calls # <<>>) =>
        LET n == Len(calls) IN
        /\ (calls[n].blank /\ BodyCall(calls[n])) => parser.last_chords = <<>>
        /\ LyricCall(calls[n]) =>
              parser.part.lines[Len(parser.part.lines)].chords =
                  IF n > 1 /\ ChordCall(calls[n - 1]) THEN ChordsOf(calls[n - 1]) ELSE <<>>

(***************************************************************************)
(* C16.  The first line with content in DEFINITION that has no ": " puts   *)
(* the parser in BODY and is processed once as a body line: as the name of *)
(* the Part, as pending chords or as one lyric Line; the metadata and the  *)
(* Song are as before.                                                     *)
(***************************************************************************)
HasSeparator(line) == \E i \in 1..Len(line) : HasAt(line, i, <<":", " ">>)

\* s without its leading whitespace
WithoutLeadingWs(s) == SubSeq(s, LeadingWs(s) + 1, Len(s))

EndOfMetadataStep ==
    LET line == calls'[Len(calls')].line IN
    ( /\ IsCall
      /\ parser.state = "DEFINITION"
      /\ ~calls'[Len(calls')].blank
      /\ ~HasSeparator(line) )
    => /\ parser'.state = "BODY"
       /\ parser'.song = parser.song
       /\ IF line[Len(line)] = ":"
          THEN /\ parser'.part = SongPart(WithoutLeadingWs(SubSeq(line, 1, Len(line) - 1)), <<>>)
               /\ parser'.last_chords = <<>>
          ELSE IF parse_chords(line).some
          THEN /\ parser'.part = SongPartDefault
               /\ parser'.last_chords = parse_chords(line).val
          ELSE /\ parser'.part = SongPart(<<>>, <<SongLine(line, <<>>)>>)
               /\ parser'.last_chords = <<>>

EndOfMetadata == [][EndOfMetadataStep]_vars

\* title, a metadata line, then a lyric line that ends the metadata
EndOfMetadataWitness ==
    /\ pc = "lines"
    /\ Len(calls) = 3
    /\ calls[2].branch = "metadata"
    /\ calls[3].line = LyricLine /\ LyricCall(calls[3])
    /\ parser.state = "BODY"
    /\ parser.part = SongPart(<<>>, <<SongLine(LyricLine, <<>>)>>)
    /\ DOMAIN parser.song.metadata = {<<"a", "r", "t", "i", "s", "t">>}

(***************************************************************************)
(* C17.  A call of parse_line keeps the Parts of the Song as they are and  *)
(* in place, and keeps the Lines of the Part under construction as they    *)
(* are and in place; the Part under construction comes into the Song, as   *)
(* its last Part, only in a call with a blank line.                        *)
(***************************************************************************)
IsPrefix(a, b) == Len(a) <= Len(b) /\ SubSeq(b, 1, Len(a)) = a

SongGrowsStep ==
    IsCall =>
        LET before == parser.song.parts
            after == parser'.song.parts
        IN  /\ IsPrefix(before, after)
            /\ IF after = before
               THEN IsPrefix(parser.part.lines, parser'.part.lines)
               ELSE /\ calls'[Len(calls')].blank
                    /\ Len(after) = Len(before) + 1
                    /\ after[Len(after)].name = parser.part.name
                    /\ IsPrefix(parser.part.lines, after[Len(after)].lines)

SongGrows == [][SongGrowsStep]_vars

\* a Part is in the Song and the next Part has a Line
SongGrowsWitness ==
    /\ pc = "lines"
    /\ Len(parser.song.parts) = 1
    /\ parser.song.parts[1].lines # <<>>
    /\ parser.part.lines # <<>>

(***************************************************************************)
(* C18.  The state of the parser goes from START to DEFINITION to BODY and *)
(* never back; the title changes only in the step from START to            *)
(* DEFINITION, the metadata only in a step from DEFINITION to DEFINITION,  *)
(* and in BODY neither changes.                                            *)
(***************************************************************************)
Rank(state) == CASE state = "START" -> 0 [] state = "DEFINITION" -> 1 [] state = "BODY" -> 2

PhaseForwardStep ==
    /\ Rank(parser'.state) >= Rank(parser.state)
    /\ parser.state = "START" => parser'.state \in {"START", "DEFINITION"}
    /\ parser'.song.title # parser.song.title =>
          parser.state = "START" /\ parser'.state = "DEFINITION"
    /\ parser'.song.metadata # parser.song.metadata =>
          parser.state = "DEFINITION" /\ parser'.state = "DEFINITION"
    /\ parser.state = "BODY" =>
          /\ parser'.song.title = parser.song.title
          /\ parser'.song.metadata = parser.song.metadata

PhaseForward == [][PhaseForwardStep]_vars

\* a line "artist: J" processed in BODY, and no metadata
PhaseForwardWitness ==
    /\ \E k \in 1..Len(calls) : calls[k].line = ArtistLine /\ BodyCall(calls[k])
    /\ DOMAIN parser.song.metadata = {}
    /\ parser.song.title # <<>>

(***************************************************************************)
(* C19.  Every Line, of the Song and of the Part under construction, has   *)
(* text or a chord.                                                        *)
(***************************************************************************)
NotVoid(line) == line.text # <<>> \/ line.chords # <<>>

NoVoidLine ==
    /\ \A x \in LinePlaces(parser.song) : NotVoid(LineAt(parser.song, x))
    /\ \A j \in 1..Len(parser.part.lines) : NotVoid(parser.part.lines[j])

\* the Song has a Line without text, and an empty line went to the chord
\* extraction after a flush and gave no Line
NoVoidLineWitness ==
    /\ pc = "parsed"
    /\ \E x \in LinePlaces(parser.song) : LineAt(parser.song, x).text = <<>>
    /\ \E k \in 1..(Len(calls) - 1) :
          calls[k].line = BlankLine /\ calls[k].pushed /\ calls[k].branch = "chord"

(***************************************************************************)
(* C15.  In DEFINITION a line with content has metadata in it exactly when *)
(* it contains ": "; then the line is split at its last ": ", the key is   *)
(* the text before it, the value the text after it, the value is stored    *)
(* under the key in place of any earlier one, and the state stays          *)
(* DEFINITION.  As the claim has it, the key is all the text before the    *)
(* separator; in the code the key is that text without its leading         *)
(* whitespace.                                                             *)
(***************************************************************************)
LastSeparator(line) ==
    CHOOSE i \in 1..Len(line) :
        /\ HasAt(line, i, <<":", " ">>)
        /\ \A j \in (i + 1)..Len(line) : ~HasAt(line, j, <<":", " ">>)

TextBefore(line) == SubSeq(line, 1, LastSeparator(line) - 1)
TextAfter(line) == SubSeq(line, LastSeparator(line) + 2, Len(line))

\* the map with value under key, and the other entries as they are
Stored(metadata, key, value) ==
    [k \in (DOMAIN metadata) \cup {key} |-> IF k = key THEN value ELSE metadata[k]]

DefinitionCall ==
    /\ IsCall
    /\ parser.state = "DEFINITION"
    /\ ~calls'[Len(calls')].blank

\* the claim as stated: the key is the text before the separator
MetadataKeyIsTextBeforeStep ==
    LET line == calls'[Len(calls')].line IN
    DefinitionCall =>
        IF HasSeparator(line)
        THEN parser' = [parser EXCEPT
                 !.song.metadata = Stored(@, TextBefore(line), TextAfter(line))]
        ELSE /\ parser'.state = "BODY"
             /\ parser'.song.metadata = parser.song.metadata

MetadataKeyIsTextBefore == [][MetadataKeyIsTextBeforeStep]_vars

\* the key is the text before the separator without its leading whitespace
MetadataAtLastSeparatorStep ==
    LET line == calls'[Len(calls')].line IN
    DefinitionCall =>
        IF HasSeparator(line)
        THEN parser' = [parser EXCEPT
                 !.song.metadata = Stored(@, WithoutLeadingWs(TextBefore(line)),
                                          TextAfter(line))]
        ELSE /\ parser'.state = "BODY"
             /\ parser'.song.metadata = parser.song.metadata

MetadataAtLastSeparator == [][MetadataAtLastSeparatorStep]_vars

\* "k: : v" gave the key "k: ", then " k: v " put "v " in place of the "v" of
\* "k: v" under the key "k"
MetadataAtLastSeparatorWitness ==
    /\ pc = "lines"
    /\ Len(calls) = 4
    /\ calls[2].line = TwoSeparatorsLine
    /\ calls[3].line = KeyLineV
    /\ calls[4].line = PaddedKeyLine
    /\ parser.state = "DEFINITION"
    /\ DOMAIN parser.song.metadata = {<<"k">>, <<"k", ":", " ">>}
    /\ parser.song.metadata[<<"k">>] = <<"v", " ">>
    /\ parser.song.metadata[<<"k", ":", " ">>] = <<"v">>

=============================================================================
